---- MODULE Spec2Model ----
(***************************************************************************)
(* Multi-District JJM O&M Tracker (src/app.py): the relational store       *)
(* (schemes, progress, issues, delay_settings), the handlers that write it *)
(* and the scheme status / forecast computation that reads it.             *)
(*                                                                         *)
(* Conventions.  A nullable SQL number is a sequence: <<>> is NULL and     *)
(* <<v>> is the value v.  A stored date is the triple <<y, m, d>> of its   *)
(* 'YYYY-MM-DD' text, and <<>> is NULL.  avg_progress is kept in tenths of *)
(* a percent (the code rounds it to one decimal), so 100 % is 1000.        *)
(***************************************************************************)
EXTENDS Integers, Sequences, FiniteSets, TLC

VARIABLES schemes, progress, issues, delay_settings, page, ops, forms, alert

vars == <<schemes, progress, issues, delay_settings, page, ops, forms, alert>>

(***************************************************************************)
(* Bounds of the model.                                                    *)
(***************************************************************************)
\* number of store-writing requests other than imports explored in one run
\* (an import only resets its district, so imports need no bound)
MaxOps == 2

\* number of progress forms submitted by the browser sessions in one run
MaxSubmits == 3

\* number of open issues of the scheme a summary message is written for
MaxIssues == 4

NULL == <<>>

IsNull(x) == x = <<>>

Val(x) == x[1]

(***************************************************************************)
(* Small input sets.                                                       *)
(***************************************************************************)
Districts == {"D1", "D2"}

\* users as rows of district_users joined with districts (authenticate_district_user)
Users ==
  { [username |-> "eng1", role |-> "Engineer", district_id |-> "D1",
     assigned_block |-> <<"north">>, assigned_agency |-> "alpha"],
    [username |-> "mgr1", role |-> "Manager / Coordinator", district_id |-> "D1",
     assigned_block |-> <<"", "South">>, assigned_agency |-> ""],
    [username |-> "corp2", role |-> "Corporate", district_id |-> "D2",
     assigned_block |-> <<"all">>, assigned_agency |-> "ALL"] }

\* str.upper() / SQL UPPER() on the vocabulary of the model
Upper(s) ==
  CASE s = "north" -> "NORTH"
    [] s = "North" -> "NORTH"
    [] s = "south" -> "SOUTH"
    [] s = "South" -> "SOUTH"
    [] s = "alpha" -> "ALPHA"
    [] s = "Alpha" -> "ALPHA"
    [] s = "Beta" -> "BETA"
    [] s = "all" -> "ALL"
    [] OTHER -> s

\* the component catalog (load_default_components), the rows the model uses
components ==
  { [component_id |-> 1, component_name |-> "Distribution Line",
     component_group |-> "Distribution Line", site_type |-> "main",
     entry_type |-> "metric"],
    [component_id |-> 3, component_name |-> "Grouting of FHTC",
     component_group |-> "Distribution Line", site_type |-> "main",
     entry_type |-> "task"] }

ComponentById(cid) == CHOOSE c \in components : c.component_id = cid

issue_categories ==
  {"Material not delivered", "Contractor not working", "Payment issues",
   "Equipment problems", "Weather delays", "Quality issues", "Approval delays",
   "Other"}

severities == {"Low", "Medium", "High", "Critical"}

setting_names ==
  {"critical_issues", "high_issues", "material_issues", "payment_issues",
   "contractor_issues"}

\* the defaults of init_database / get_delay_settings
default_settings ==
  [n \in setting_names |->
     CASE n = "critical_issues" -> 14
       [] n = "high_issues" -> 7
       [] n = "material_issues" -> 10
       [] n = "payment_issues" -> 21
       [] n = "contractor_issues" -> 14]

(***************************************************************************)
(* Scope of an actor.                                                      *)
(***************************************************************************)
\* assigned_block is the comma-separated text, kept as the sequence of its
\* tokens; "ALL" (any case) is the one-token sequence
IsAll(s) == Upper(s) = "ALL"

BlockIsAll(assigned_block) == Len(assigned_block) = 1 /\ IsAll(assigned_block[1])

parse_assigned_blocks(assigned_block) ==
  IF assigned_block = <<>> \/ BlockIsAll(assigned_block)
    THEN {}
    ELSE {Upper(assigned_block[i]) :
            i \in {j \in 1..Len(assigned_block) : assigned_block[j] # ""}}

\* a variant of the block condition that never adds the IN (...) clause
BlockCondition_unfiltered(user_data, s) == TRUE

\* the block condition shared by Engineers and Managers
BlockCondition(user_data, s) ==
  IF user_data.assigned_block # <<>> /\ ~BlockIsAll(user_data.assigned_block)
    THEN LET blocks == parse_assigned_blocks(user_data.assigned_block)
         IN  blocks # {} => Upper(s.block) \in blocks
    ELSE TRUE

AgencyCondition(user_data, s) ==
  IF user_data.assigned_agency # "" /\ ~IsAll(user_data.assigned_agency)
    THEN Upper(s.agency) = Upper(user_data.assigned_agency)
    ELSE TRUE

\* the WHERE clause get_scheme_data_with_issues builds for the actor
SchemeQuery(user_data) ==
  {s \in schemes :
     CASE user_data.role = "Engineer" ->
            /\ s.district_id = user_data.district_id
            /\ BlockCondition(user_data, s)
            /\ AgencyCondition(user_data, s)
       [] user_data.role = "Manager / Coordinator" ->
            /\ s.district_id = user_data.district_id
            /\ BlockCondition(user_data, s)
       [] OTHER -> TRUE}

(***************************************************************************)
(* Arithmetic of the progress aggregate.  A fraction is <<n, d>>, d # 0.   *)
(***************************************************************************)
Abs(x) == IF x < 0 THEN -x ELSE x

\* round half to even of n / d (numpy round), d # 0
RoundHalfEven(n, d) ==
  LET nn == IF d < 0 THEN -n ELSE n
      dd == Abs(d)
      q  == nn \div dd
      r  == nn - q * dd
  IN  IF 2 * r < dd THEN q
      ELSE IF 2 * r > dd THEN q + 1
      ELSE IF q % 2 = 0 THEN q ELSE q + 1

RECURSIVE SumFrac(_)
SumFrac(F) ==
  IF F = {} THEN <<0, 1>>
  ELSE LET f == CHOOSE x \in F : TRUE
           rest == SumFrac(F \ {f})
       IN  <<f.frac[1] * rest[2] + rest[1] * f.frac[2], f.frac[2] * rest[2]>>

RECURSIVE MaxOf(_)
MaxOf(S) ==
  LET x == CHOOSE y \in S : TRUE
  IN  IF S = {x} THEN x
      ELSE LET m == MaxOf(S \ {x}) IN IF x > m THEN x ELSE m

\* the CASE expression of progress_query for one progress row: NULL or a fraction
entry_value(p) ==
  IF ComponentById(p.component_id).entry_type = "metric"
    THEN IF IsNull(p.achieved_value) \/ IsNull(p.target_value)
              \/ Val(p.target_value) = 0
           THEN NULL
           ELSE <<100 * Val(p.achieved_value), Val(p.target_value)>>
    ELSE IF IsNull(p.progress_percent) THEN NULL
         ELSE <<Val(p.progress_percent), 1>>

\* the percentage the entry form shows for a metric row, as a fraction
progress_val(target, achieved) ==
  IF target > 0 THEN <<100 * achieved, target>> ELSE <<0, 1>>

\* progress_query: the rows of the queried districts, grouped by scheme_id
progress_group(districts_to_query, scheme_id) ==
  {p \in progress : p.district_id \in districts_to_query /\ p.scheme_id = scheme_id}

\* AVG(...) of a group, rounded to one decimal, in tenths; NULL when no row
\* of the group has a non-NULL value
avg_of_group(G) ==
  LET F == {[key |-> p.component_id, district |-> p.district_id,
             frac |-> entry_value(p)] : p \in {q \in G : ~IsNull(entry_value(q))}}
      sum == SumFrac(F)
  IN  IF F = {} THEN NULL
      ELSE <<RoundHalfEven(10 * sum[1], sum[2] * Cardinality(F))>>

\* MAX(days_remaining) of a group
max_days_of_group(G) ==
  LET D == {Val(p.days_remaining) : p \in {q \in G : ~IsNull(q.days_remaining)}}
  IN  IF D = {} THEN NULL ELSE <<MaxOf(D)>>

fillna0(x) == IF IsNull(x) THEN 0 ELSE Val(x)

(***************************************************************************)
(* get_delay_settings and get_scheme_data_with_issues.                     *)
(***************************************************************************)
\* a variant that reads the table only: a class without a row costs nothing
get_delay_settings_table_only ==
  [n \in setting_names |->
     IF n \in DOMAIN delay_settings THEN delay_settings[n] ELSE 0]

\* the defaults, overridden by the rows of the delay_settings table
get_delay_settings ==
  [n \in setting_names |->
     IF n \in DOMAIN delay_settings THEN delay_settings[n] ELSE default_settings[n]]

IsAny(i) == TRUE

IsOpen(i) == i.is_resolved = 0

IsOpenCritical(i) == i.severity = "Critical" /\ i.is_resolved = 0

IsOpenHigh(i) == i.severity = "High" /\ i.is_resolved = 0

IsOpenMaterial(i) == i.issue_category = "Material not delivered" /\ i.is_resolved = 0

IsOpenPayment(i) == i.issue_category = "Payment issues" /\ i.is_resolved = 0

IsOpenContractor(i) == i.issue_category = "Contractor not working" /\ i.is_resolved = 0

\* the CASE of one count column of issues_query
IssueCase(column, i) ==
  CASE column = "total_issues" -> IsAny(i)
    [] column = "open_issues" -> IsOpen(i)
    [] column = "critical_issues" -> IsOpenCritical(i)
    [] column = "high_issues" -> IsOpenHigh(i)
    [] column = "material_issues" -> IsOpenMaterial(i)
    [] column = "payment_issues" -> IsOpenPayment(i)
    [] column = "contractor_issues" -> IsOpenContractor(i)

\* COUNT(CASE WHEN ... THEN 1 END) of issues_query for one scheme_id group
CountIssues(districts_to_query, scheme_id, column) ==
  Cardinality({i \in 1..Len(issues) :
                 /\ issues[i].district_id \in districts_to_query
                 /\ issues[i].scheme_id = scheme_id
                 /\ IssueCase(column, issues[i])})

issue_delay_days(row, delay_penalties) ==
  row.critical_issues * delay_penalties["critical_issues"]
  + row.high_issues * delay_penalties["high_issues"]
  + row.material_issues * delay_penalties["material_issues"]
  + row.payment_issues * delay_penalties["payment_issues"]
  + row.contractor_issues * delay_penalties["contractor_issues"]

\* a variant that takes the delay off the remaining days
adjusted_days_remaining_less(max_days_remaining, delay) == max_days_remaining - delay

adjusted_days_remaining(max_days_remaining, delay) == max_days_remaining + delay

risk_level(critical_issues, open_issues) ==
  IF critical_issues > 0 \/ open_issues >= 3 THEN "High Risk"
  ELSE IF open_issues > 0 THEN "Medium Risk"
  ELSE "Low Risk"

\* a variant of status with the conditions in another order: progress first
status_progress_first(ee_verified_date, avg_progress) ==
  IF avg_progress >= 1000 THEN "Ready for Inspection"
  ELSE IF avg_progress > 0 THEN "In Progress"
  ELSE IF ee_verified_date # NULL THEN "In O&M"
  ELSE "Not Started"

\* np.select: the first condition that holds chooses; avg_progress in tenths
status(ee_verified_date, avg_progress) ==
  IF ee_verified_date # NULL THEN "In O&M"
  ELSE IF avg_progress >= 1000 THEN "Ready for Inspection"
  ELSE IF avg_progress > 0 THEN "In Progress"
  ELSE "Not Started"

\* the aggregate columns merged onto a scheme row (merge on scheme_id, fillna)
progress_columns(districts_to_query, s) ==
  LET progress_df_empty ==
        {p \in progress : p.district_id \in districts_to_query} = {}
      G == progress_group(districts_to_query, s.scheme_id)
  IN  IF progress_df_empty
        THEN [avg_progress |-> 0, max_days_remaining |-> 0]
        ELSE [avg_progress |-> fillna0(avg_of_group(G)),
              max_days_remaining |-> fillna0(max_days_of_group(G))]

issue_columns(districts_to_query, s) ==
  [total_issues |-> CountIssues(districts_to_query, s.scheme_id, "total_issues"),
   open_issues |-> CountIssues(districts_to_query, s.scheme_id, "open_issues"),
   critical_issues |-> CountIssues(districts_to_query, s.scheme_id, "critical_issues"),
   high_issues |-> CountIssues(districts_to_query, s.scheme_id, "high_issues"),
   material_issues |-> CountIssues(districts_to_query, s.scheme_id, "material_issues"),
   payment_issues |-> CountIssues(districts_to_query, s.scheme_id, "payment_issues"),
   contractor_issues |-> CountIssues(districts_to_query, s.scheme_id, "contractor_issues")]

\* one row of full_df
scheme_row(districts_to_query, s, delay_penalties) ==
  LET pc == progress_columns(districts_to_query, s)
      ic == issue_columns(districts_to_query, s)
      delay == issue_delay_days(ic, delay_penalties)
  IN  [scheme_id |-> s.scheme_id, district_id |-> s.district_id,
       block |-> s.block, agency |-> s.agency,
       agency_submitted_date |-> s.agency_submitted_date,
       tpia_verified_date |-> s.tpia_verified_date,
       ee_verified_date |-> s.ee_verified_date,
       avg_progress |-> pc.avg_progress,
       max_days_remaining |-> pc.max_days_remaining,
       total_issues |-> ic.total_issues, open_issues |-> ic.open_issues,
       critical_issues |-> ic.critical_issues, high_issues |-> ic.high_issues,
       material_issues |-> ic.material_issues,
       payment_issues |-> ic.payment_issues,
       contractor_issues |-> ic.contractor_issues,
       issue_delay_days |-> delay,
       adjusted_days_remaining |->
         adjusted_days_remaining(pc.max_days_remaining, delay),
       risk_level |-> risk_level(ic.critical_issues, ic.open_issues),
       status |-> status(s.ee_verified_date, pc.avg_progress)]

get_scheme_data_with_issues(user_data) ==
  LET delay_penalties == get_delay_settings
      schemes_df == SchemeQuery(user_data)
      districts_to_query == {s.district_id : s \in schemes_df}
  IN  {scheme_row(districts_to_query, s, delay_penalties) : s \in schemes_df}

(***************************************************************************)
(* Calendar arithmetic of datetime + timedelta(days): a date is <<y,m,d>>. *)
(***************************************************************************)
\* date -> day number (days since 1970-01-01), proleptic Gregorian
toordinal(date) ==
  LET m == date[2]
      y == IF m <= 2 THEN date[1] - 1 ELSE date[1]
      era == y \div 400
      yoe == y - era * 400
      mp == IF m > 2 THEN m - 3 ELSE m + 9
      doy == (153 * mp + 2) \div 5 + date[3] - 1
      doe == yoe * 365 + yoe \div 4 - yoe \div 100 + doy
  IN  era * 146097 + doe - 719468

\* day number -> date
fromordinal(n) ==
  LET z == n + 719468
      era == z \div 146097
      doe == z - era * 146097
      yoe == (doe - doe \div 1460 + doe \div 36524 - doe \div 146096) \div 365
      doy == doe - (365 * yoe + yoe \div 4 - yoe \div 100)
      mp == (5 * doy + 2) \div 153
      d == doy - (153 * mp + 2) \div 5 + 1
      m == IF mp < 10 THEN mp + 3 ELSE mp - 9
      y == yoe + era * 400
  IN  <<IF m <= 2 THEN y + 1 ELSE y, m, d>>

\* a variant that counts every month as 30 days and every year as 360
plus_days_30(date, d) ==
  LET n == 360 * date[1] + 30 * (date[2] - 1) + (date[3] - 1) + d
  IN  <<n \div 360, ((n % 360) \div 30) + 1, (n % 30) + 1>>

\* today + timedelta(days = d)
plus_days(date, d) == fromordinal(toordinal(date) + d)

\* a variant of forecast_rows that leaves out only the schemes in O&M
forecast_rows_unverified(df, today, buffer_days) ==
  {[scheme_id |-> r.scheme_id, district_id |-> r.district_id,
    status |-> r.status,
    max_days_remaining |-> r.max_days_remaining,
    adjusted_days_remaining |-> r.adjusted_days_remaining,
    physical_completion_date |-> plus_days(today, r.adjusted_days_remaining),
    forecasted_om_date |->
      plus_days(plus_days(today, r.adjusted_days_remaining), buffer_days),
    issue_delay_impact |-> r.adjusted_days_remaining - r.max_days_remaining] :
     r \in {x \in df : x.status # "In O&M"}}

\* show_analytics: the rows of forecast_df for the filtered df
forecast_rows(df, today, buffer_days) ==
  {[scheme_id |-> r.scheme_id, district_id |-> r.district_id,
    status |-> r.status,
    max_days_remaining |-> r.max_days_remaining,
    adjusted_days_remaining |-> r.adjusted_days_remaining,
    physical_completion_date |-> plus_days(today, r.adjusted_days_remaining),
    forecasted_om_date |->
      plus_days(plus_days(today, r.adjusted_days_remaining), buffer_days),
    issue_delay_impact |-> r.adjusted_days_remaining - r.max_days_remaining] :
     r \in {x \in df : x.status \in {"In Progress", "Ready for Inspection"}}}

(***************************************************************************)
(* Inputs of the handlers.                                                 *)
(***************************************************************************)
UserByName(n) == CHOOSE u \in Users : u.username = n

\* str.strip() on the vocabulary of the model
Strip(s) ==
  CASE s = "North " -> "North"
    [] s = " S1" -> "S1"
    [] OTHER -> s

\* the spreadsheet a district uploads: rows after dropna, in file order
ImportFile(district_id) ==
  IF district_id = "D1"
    THEN << [sr_no |-> 1, block |-> "North ", agency |-> "Alpha", scheme_id |-> "S1"],
            [sr_no |-> 2, block |-> "south", agency |-> "Beta", scheme_id |-> "S2"] >>
    ELSE << [sr_no |-> 1, block |-> "North", agency |-> "Alpha", scheme_id |-> " S1"] >>

\* what a metric row of the form can hold: target, achieved, days left
\* (number_input without limits: any number, also 0 and negative)
MetricInputs ==
  { [target |-> 0, achieved |-> 0, days |-> 0],
    [target |-> 3, achieved |-> 3, days |-> 30],
    [target |-> -3, achieved |-> 1, days |-> 5] }

\* what a task row of the form can hold: the slider 0..100 and days left
TaskInputs ==
  { [percent |-> 0, days |-> 0],
    [percent |-> 100, days |-> 10] }

\* the "Report Issue" boxes of one form, one per component: category, text,
\* severity; an untouched box holds the first category, no text and "Medium"
IssueInputs ==
  { << [component_id |-> 1, category |-> "Material not delivered",
        description |-> "", severity |-> "Medium"],
       [component_id |-> 3, category |-> "Material not delivered",
        description |-> "  ", severity |-> "Critical"] >>,
    << [component_id |-> 1, category |-> "Other", description |-> "leak",
        severity |-> "High"],
       [component_id |-> 3, category |-> "Other", description |-> "crack",
        severity |-> "Critical"] >>,
    << [component_id |-> 1, category |-> "Material not delivered",
        description |-> "pipes", severity |-> "High"],
       [component_id |-> 3, category |-> "Weather delays",
        description |-> "rain", severity |-> "Medium"] >>,
    << [component_id |-> 1, category |-> "Payment issues",
        description |-> "bill", severity |-> "Low"],
       [component_id |-> 3, category |-> "Contractor not working",
        description |-> "idle", severity |-> "Medium"] >> }

\* the dates an editor types into one row: agency, tpia, ee
VerificationInputs ==
  { [agency_submitted_date |-> NULL, tpia_verified_date |-> NULL,
     ee_verified_date |-> <<2024, 2, 29>>],
    [agency_submitted_date |-> <<2023, 12, 31>>,
     tpia_verified_date |-> <<2024, 1, 15>>,
     ee_verified_date |-> NULL] }

\* the values an administrator types in "Forecast Settings"; the boxes hold
\* no value below min_value = 0, so the second form cannot be submitted
DelayInputs ==
  { [n \in setting_names |->
       CASE n = "critical_issues" -> 1
         [] n = "high_issues" -> 2
         [] n = "material_issues" -> 3
         [] n = "payment_issues" -> 4
         [] n = "contractor_issues" -> 0],
    [n \in setting_names |-> IF n = "high_issues" THEN -1 ELSE 5] }

\* the inputs of one forecast: the select boxes, the buffer (0..60) and now
AnalyticsInputs ==
  { [selected_block |-> "All Blocks", selected_agency |-> "All Agencies",
     buffer_days |-> 20, today |-> <<2024, 1, 1>>],
    [selected_block |-> "North", selected_agency |-> "All Agencies",
     buffer_days |-> 0, today |-> <<2023, 12, 15>>],
    [selected_block |-> "All Blocks", selected_agency |-> "Beta",
     buffer_days |-> 60, today |-> <<2023, 12, 15>>] }

\* no summary message composed (st.session_state.message_to_send unset)
NoAlert == [issues_df |-> << >>, message |-> NULL]

\* the browser sessions (st.session_state): each holds its own widgets
Sessions == {"tab1", "tab2"}

\* the account signed in in both sessions
SessionUsers == {u \in Users : u.username = "eng1"}

\* the issue boxes of a form submitted by a session: untouched, or filled in
SessionIssueInputs ==
  {b \in IssueInputs : b[1].description \in {"", "leak"}}

\* a session that shows no progress form
NoForm == [user |-> "", scheme_id |-> "", progress_df |-> {}, updates |-> << >>]

NoPage == [kind |-> "none", user |-> "", df |-> {}, forecast |-> {},
           problem_schemes |-> {},
           selected_block |-> "", selected_agency |-> "",
           today |-> NULL, buffer_days |-> 0]

\* a variant of the initialisation that writes the defaults on every run
init_delay_settings_resetting(tbl) == default_settings

\* init_database, run by main on every request: the defaults are inserted
\* when the delay_settings table has no row at all
init_delay_settings(tbl) == IF DOMAIN tbl = {} THEN default_settings ELSE tbl

(***************************************************************************)
(* The state after init_database on an empty file.                         *)
(***************************************************************************)
Init ==
  /\ schemes = {}
  /\ progress = {}
  /\ issues = << >>
  /\ delay_settings = default_settings
  /\ page = NoPage
  /\ ops = 0
  /\ forms = [x \in Sessions |-> NoForm]
  /\ alert = NoAlert

(***************************************************************************)
(* show_import_data: wipe the district, insert the rows of the file.       *)
(***************************************************************************)
\* INSERT OR REPLACE INTO schemes, row by row
RECURSIVE InsertSchemes(_, _, _)
InsertSchemes(tbl, district_id, rows) ==
  IF rows = << >> THEN tbl
  ELSE LET row == Head(rows)
           new == [scheme_id |-> Strip(row.scheme_id), district_id |-> district_id,
                   sr_no |-> row.sr_no, block |-> Strip(row.block),
                   agency |-> Strip(row.agency),
                   agency_submitted_date |-> NULL, tpia_verified_date |-> NULL,
                   ee_verified_date |-> NULL]
           kept == {s \in tbl : ~(s.scheme_id = new.scheme_id
                                   /\ s.district_id = new.district_id)}
       IN  InsertSchemes(kept \cup {new}, district_id, Tail(rows))

\* the navigation menu show_district_app offers to a role
base_pages(role) ==
  {"Dashboard", "Progress Entry", "Issues Dashboard", "Analytics",
   "O&M Verification", "Problem Schemes"}
    \cup (IF role \in {"Manager / Coordinator", "Corporate"}
            THEN {"WhatsApp Contacts", "Import Data"} ELSE {})

\* a variant of the import that is routed and run for every role
ImportSchemes_for_any_role(user_data) ==
  /\ page = NoPage
  /\ LET district_id == user_data.district_id
     IN  /\ schemes' = InsertSchemes({s \in schemes : s.district_id # district_id},
                                     district_id, ImportFile(district_id))
         /\ progress' = {p \in progress : p.district_id # district_id}
  /\ page' = NoPage
  /\ UNCHANGED <<issues, delay_settings, ops, forms, alert>>

\* a variant of the import without the DELETE FROM progress
ImportSchemes_keeping_progress(user_data) ==
  /\ page = NoPage
  /\ "Import Data" \in base_pages(user_data.role)
  /\ user_data.role # "Engineer"
  /\ LET district_id == user_data.district_id
     IN  /\ schemes' = InsertSchemes({s \in schemes : s.district_id # district_id},
                                     district_id, ImportFile(district_id))
         /\ progress' = progress
  /\ page' = NoPage
  /\ UNCHANGED <<issues, delay_settings, ops, forms, alert>>

\* a variant of the import whose DELETE FROM progress has no WHERE clause
ImportSchemes_wiping_all_progress(user_data) ==
  /\ page = NoPage
  /\ user_data.role # "Engineer"
  /\ LET district_id == user_data.district_id
     IN  /\ schemes' = InsertSchemes({s \in schemes : s.district_id # district_id},
                                     district_id, ImportFile(district_id))
         /\ progress' = {}
  /\ page' = NoPage
  /\ UNCHANGED <<issues, delay_settings, ops, forms, alert>>

\* a variant of the import that reopens the issues of the district
ImportSchemes_reopening_issues(user_data) ==
  /\ page = NoPage
  /\ user_data.role # "Engineer"
  /\ LET district_id == user_data.district_id
     IN  /\ schemes' = InsertSchemes({s \in schemes : s.district_id # district_id},
                                     district_id, ImportFile(district_id))
         /\ progress' = {p \in progress : p.district_id # district_id}
         /\ issues' = [i \in 1..Len(issues) |->
                         IF issues[i].district_id = district_id
                           THEN [issues[i] EXCEPT !.is_resolved = 0]
                           ELSE issues[i]]
  /\ page' = NoPage
  /\ UNCHANGED <<delay_settings, ops, forms, alert>>

\* a variant of the import that also wipes the issues of the district
IsOtherDistrictIssue(i, district_id) == i.district_id # district_id

ImportSchemes_wiping_issues(user_data) ==
  /\ page = NoPage
  /\ user_data.role # "Engineer"
  /\ LET district_id == user_data.district_id
     IN  /\ schemes' = InsertSchemes({s \in schemes : s.district_id # district_id},
                                     district_id, ImportFile(district_id))
         /\ progress' = {p \in progress : p.district_id # district_id}
         /\ issues' = SelectSeq(issues,
                                LAMBDA i : IsOtherDistrictIssue(i, district_id))
  /\ page' = NoPage
  /\ UNCHANGED <<delay_settings, ops, forms, alert>>

ImportSchemes(user_data) ==
  /\ page = NoPage
  /\ "Import Data" \in base_pages(user_data.role)
  /\ user_data.role # "Engineer"
  /\ LET district_id == user_data.district_id
     IN  /\ schemes' = InsertSchemes({s \in schemes : s.district_id # district_id},
                                     district_id, ImportFile(district_id))
         /\ progress' = {p \in progress : p.district_id # district_id}
  /\ page' = NoPage
  /\ UNCHANGED <<issues, delay_settings, ops, forms, alert>>

(***************************************************************************)
(* show_progress_entry: the schemes offered, and "Save <group>".           *)
(***************************************************************************)
ProgressEntrySchemes(user_data) ==
  {s \in schemes :
     /\ s.district_id = user_data.district_id
     /\ CASE user_data.role = "Engineer" ->
               BlockCondition(user_data, s) /\ AgencyCondition(user_data, s)
          [] user_data.role = "Manager / Coordinator" -> BlockCondition(user_data, s)
          [] OTHER -> TRUE}

component_groups == {c.component_group : c \in components}

group_comps(group_name) == {c \in components : c.component_group = group_name}

\* the contents a submitted form can have: one input per component of the group
FormUpdates(group_name) ==
  LET ids == {c.component_id : c \in group_comps(group_name)}
  IN  {f \in [ids -> MetricInputs \cup TaskInputs] :
         \A cid \in ids :
           IF ComponentById(cid).entry_type = "metric"
             THEN f[cid] \in MetricInputs
             ELSE f[cid] \in TaskInputs}

\* the row INSERT OR REPLACE writes for one update; unnamed columns are NULL
progress_row(district_id, scheme_id, cid, u) ==
  IF ComponentById(cid).entry_type = "metric"
    THEN [district_id |-> district_id, scheme_id |-> scheme_id, component_id |-> cid,
          target_value |-> <<u.target>>, achieved_value |-> <<u.achieved>>,
          progress_percent |-> NULL, days_remaining |-> <<u.days>>]
    ELSE [district_id |-> district_id, scheme_id |-> scheme_id, component_id |-> cid,
          target_value |-> NULL, achieved_value |-> NULL,
          progress_percent |-> <<u.percent>>, days_remaining |-> <<u.days>>]

\* issue_description and issue_description.strip()
HasText(description) == description \notin {"", "  "}

RECURSIVE AppendIssues(_, _, _, _, _)
AppendIssues(log, district_id, scheme_id, reporter_name, boxes) ==
  IF boxes = << >> THEN log
  ELSE LET b == Head(boxes)
           row == [issue_id |-> Len(log) + 1, district_id |-> district_id,
                   scheme_id |-> scheme_id, component_id |-> b.component_id,
                   issue_category |-> b.category,
                   issue_description |-> b.description,
                   severity |-> b.severity, reported_by |-> reporter_name,
                   is_resolved |-> 0]
       IN  AppendIssues(IF HasText(b.description) THEN Append(log, row) ELSE log,
                        district_id, scheme_id, reporter_name, Tail(boxes))

\* a variant of the save that inserts new rows and keeps the earlier ones
SaveProgress_keeping_history(user_data, selected, group_name, updates, boxes) ==
  /\ page = NoPage
  /\ ops < MaxOps
  /\ selected \in ProgressEntrySchemes(user_data)
  /\ LET district_id == user_data.district_id
         selected_scheme_id == selected.scheme_id
         written == {progress_row(district_id, selected_scheme_id, cid, updates[cid]) :
                       cid \in DOMAIN updates}
     IN  /\ progress' = progress \cup written
         /\ issues' = AppendIssues(issues, district_id, selected_scheme_id,
                                   user_data.username, boxes)
  /\ page' = NoPage
  /\ ops' = ops + 1
  /\ UNCHANGED <<schemes, delay_settings, forms, alert>>

SaveProgress(user_data, selected, group_name, updates, boxes) ==
  /\ page = NoPage
  /\ ops < MaxOps
  /\ selected \in ProgressEntrySchemes(user_data)
  /\ LET district_id == user_data.district_id
         selected_scheme_id == selected.scheme_id
         written == {progress_row(district_id, selected_scheme_id, cid, updates[cid]) :
                       cid \in DOMAIN updates}
         replaced == {p \in progress :
                        /\ p.district_id = district_id
                        /\ p.scheme_id = selected_scheme_id
                        /\ p.component_id \in DOMAIN updates}
     IN  /\ progress' = (progress \ replaced) \cup written
         /\ issues' = AppendIssues(issues, district_id, selected_scheme_id,
                                   user_data.username, boxes)
  /\ page' = NoPage
  /\ ops' = ops + 1
  /\ UNCHANGED <<schemes, delay_settings, forms, alert>>

\* progress_df: the entries of the selected scheme read when the form renders
progress_df(district_id, selected_scheme_id) ==
  {p \in progress : p.scheme_id = selected_scheme_id /\ p.district_id = district_id}

\* the value a widget of the form shows before the user touches it: the
\* stored value (NULL as 0) of current_progress, or 0 when there is no entry
widget_default(loaded, cid) ==
  LET current_progress == {p \in loaded : p.component_id = cid}
      z(x) == IF IsNull(x) THEN 0 ELSE Val(x)
  IN  IF ComponentById(cid).entry_type = "metric"
        THEN IF current_progress = {}
               THEN [target |-> 0, achieved |-> 0, days |-> 0]
               ELSE LET p == CHOOSE q \in current_progress : TRUE
                    IN  [target |-> z(p.target_value),
                         achieved |-> z(p.achieved_value),
                         days |-> z(p.days_remaining)]
        ELSE IF current_progress = {}
               THEN [percent |-> 0, days |-> 0]
               ELSE LET p == CHOOSE q \in current_progress : TRUE
                    IN  [percent |-> z(p.progress_percent),
                         days |-> z(p.days_remaining)]

\* a session renders the form of a scheme (the stored entries are read) and
\* the user types the values of one tab
OpenProgressForm(session, user_data, selected, group_name, updates) ==
  /\ forms[session] = NoForm
  /\ selected \in ProgressEntrySchemes(user_data)
  /\ updates \in FormUpdates(group_name)
  /\ forms' = [forms EXCEPT ![session] =
                 [user |-> user_data.username, scheme_id |-> selected.scheme_id,
                  progress_df |-> progress_df(user_data.district_id,
                                              selected.scheme_id),
                  updates |-> updates]]
  /\ UNCHANGED <<schemes, progress, issues, delay_settings, page, ops, alert>>

\* a variant of the submit with an optimistic check: it refuses to write
\* when the stored entries are not the ones the form was rendered from
SubmitProgressForm_checking_loaded(session, boxes) ==
  /\ forms[session] # NoForm
  /\ ops < MaxSubmits
  /\ LET user_data == UserByName(forms[session].user)
         district_id == user_data.district_id
         selected_scheme_id == forms[session].scheme_id
         updates == forms[session].updates
         written == {progress_row(district_id, selected_scheme_id, cid, updates[cid]) :
                       cid \in DOMAIN updates}
         replaced == {p \in progress :
                        /\ p.district_id = district_id
                        /\ p.scheme_id = selected_scheme_id
                        /\ p.component_id \in DOMAIN updates}
     IN  /\ \E s \in ProgressEntrySchemes(user_data) : s.scheme_id = selected_scheme_id
         /\ forms[session].progress_df = progress_df(district_id, selected_scheme_id)
         /\ progress' = (progress \ replaced) \cup written
         /\ issues' = AppendIssues(issues, district_id, selected_scheme_id,
                                   user_data.username, boxes)
  /\ forms' = [forms EXCEPT ![session] = NoForm]
  /\ ops' = ops + 1
  /\ UNCHANGED <<schemes, delay_settings, page, alert>>

\* the session presses "Save": the widgets' values are written in one
\* transaction, whatever the store holds by now; st.rerun() drops the form
SubmitProgressForm(session, boxes) ==
  /\ forms[session] # NoForm
  /\ ops < MaxSubmits
  /\ LET user_data == UserByName(forms[session].user)
         district_id == user_data.district_id
         selected_scheme_id == forms[session].scheme_id
         updates == forms[session].updates
         written == {progress_row(district_id, selected_scheme_id, cid, updates[cid]) :
                       cid \in DOMAIN updates}
         replaced == {p \in progress :
                        /\ p.district_id = district_id
                        /\ p.scheme_id = selected_scheme_id
                        /\ p.component_id \in DOMAIN updates}
     IN  /\ \E s \in ProgressEntrySchemes(user_data) : s.scheme_id = selected_scheme_id
         /\ progress' = (progress \ replaced) \cup written
         /\ issues' = AppendIssues(issues, district_id, selected_scheme_id,
                                   user_data.username, boxes)
  /\ forms' = [forms EXCEPT ![session] = NoForm]
  /\ ops' = ops + 1
  /\ UNCHANGED <<schemes, delay_settings, page, alert>>

(***************************************************************************)
(* show_issues_dashboard: the issues listed, and "Resolve".                *)
(***************************************************************************)
DashboardIssues(user_data) ==
  {i \in 1..Len(issues) :
     /\ issues[i].district_id = user_data.district_id
     /\ \E s \in schemes :
          /\ s.scheme_id = issues[i].scheme_id
          /\ s.district_id = issues[i].district_id
          /\ CASE user_data.role = "Engineer" ->
                    BlockCondition(user_data, s) /\ AgencyCondition(user_data, s)
               [] user_data.role = "Manager / Coordinator" ->
                    BlockCondition(user_data, s)
               [] OTHER -> TRUE}

ResolveIssue(user_data, i) ==
  /\ page = NoPage
  /\ ops < MaxOps
  /\ i \in DashboardIssues(user_data)
  /\ issues[i].is_resolved = 0
  /\ issues' = [issues EXCEPT ![i].is_resolved = 1]
  /\ page' = NoPage
  /\ ops' = ops + 1
  /\ UNCHANGED <<schemes, progress, delay_settings, forms, alert>>

(***************************************************************************)
(* show_verification: edit one row of the table, "Save Verification Dates".*)
(***************************************************************************)
\* pd.to_datetime(text) followed by strftime('%Y-%m-%d'); NULL stays NULL
reformat_date(date) == IF date = NULL THEN NULL ELSE fromordinal(toordinal(date))

\* the table after the editor changed the dates of row edited to typed
edited_rows(df, edited, typed) ==
  {[scheme_id |-> r.scheme_id, district_id |-> r.district_id,
    agency_submitted_date |->
      reformat_date(IF r = edited THEN typed.agency_submitted_date
                    ELSE r.agency_submitted_date),
    tpia_verified_date |->
      reformat_date(IF r = edited THEN typed.tpia_verified_date
                    ELSE r.tpia_verified_date),
    ee_verified_date |->
      reformat_date(IF r = edited THEN typed.ee_verified_date
                    ELSE r.ee_verified_date)] : r \in df}

SaveVerification(user_data, typed) ==
  /\ page = NoPage
  /\ ops < MaxOps
  /\ LET df == get_scheme_data_with_issues(user_data)
     IN  \E edited \in df :
           LET edited_df == edited_rows(df, edited, typed)
               ids == {e.scheme_id : e \in edited_df}
           IN  \* the rows are written in the order the query returned them;
               \* of two rows with one scheme_id the later write stays
               \E last \in [ids -> edited_df] :
                 /\ \A sid \in ids : last[sid].scheme_id = sid
                 /\ schemes' =
                      {IF s.district_id = user_data.district_id
                            /\ s.scheme_id \in ids
                         THEN [s EXCEPT
                                 !.agency_submitted_date =
                                    last[s.scheme_id].agency_submitted_date,
                                 !.tpia_verified_date =
                                    last[s.scheme_id].tpia_verified_date,
                                 !.ee_verified_date =
                                    last[s.scheme_id].ee_verified_date]
                         ELSE s : s \in schemes}
  /\ page' = NoPage
  /\ ops' = ops + 1
  /\ UNCHANGED <<progress, issues, delay_settings, forms, alert>>

(***************************************************************************)
(* show_admin_panel: "Save Delay Settings".                                *)
(***************************************************************************)
SaveDelaySettings(typed) ==
  /\ page = NoPage
  /\ ops < MaxOps
  /\ \A n \in setting_names : typed[n] >= 0
  /\ delay_settings' = [n \in DOMAIN delay_settings |-> typed[n]]
  /\ page' = NoPage
  /\ ops' = ops + 1
  /\ UNCHANGED <<schemes, progress, issues, forms, alert>>

(***************************************************************************)
(* The read-only pages.  Streamlit runs the script anew on every           *)
(* interaction: a handler starts from the empty page, and page is what the *)
(* current run has rendered.                                               *)
(***************************************************************************)
\* a variant of the dashboard that clears the progress entries it has read
ShowDashboard_clearing_progress(user_data) ==
  /\ page = NoPage
  /\ page' = [NoPage EXCEPT !.kind = "Dashboard", !.user = user_data.username,
                            !.df = get_scheme_data_with_issues(user_data)]
  /\ progress' = {p \in progress : p.district_id # user_data.district_id}
  /\ UNCHANGED <<schemes, issues, delay_settings, ops, forms, alert>>

ShowDashboard(user_data) ==
  /\ page = NoPage
  /\ page' = [NoPage EXCEPT !.kind = "Dashboard", !.user = user_data.username,
                            !.df = get_scheme_data_with_issues(user_data)]
  /\ UNCHANGED <<schemes, progress, issues, delay_settings, ops, forms, alert>>

\* the df of show_analytics after the two select boxes
filtered_df(df, selected_block, selected_agency) ==
  LET by_block == IF selected_block # "All Blocks"
                    THEN {r \in df : r.block = selected_block} ELSE df
  IN  IF selected_agency # "All Agencies"
        THEN {r \in by_block : r.agency = selected_agency} ELSE by_block

ShowAnalytics(user_data) ==
  /\ page = NoPage
  /\ LET all == get_scheme_data_with_issues(user_data)
     IN  /\ all # {}
         /\ \E in \in AnalyticsInputs :
              LET by_block == filtered_df(all, in.selected_block, "All Agencies")
                  df == filtered_df(all, in.selected_block, in.selected_agency)
              IN  /\ in.selected_block \in {"All Blocks"} \cup {r.block : r \in all}
                  /\ in.selected_agency \in
                       {"All Agencies"} \cup {r.agency : r \in by_block}
                  /\ in.buffer_days \in 0..60
                  /\ page' = [kind |-> "Analytics", user |-> user_data.username,
                              selected_block |-> in.selected_block,
                              selected_agency |-> in.selected_agency,
                              df |-> df,
                              problem_schemes |-> {},
                              forecast |->
                                forecast_rows(df, in.today, in.buffer_days),
                              today |-> in.today,
                              buffer_days |-> in.buffer_days]
  /\ UNCHANGED <<schemes, progress, issues, delay_settings, ops, forms, alert>>

\* show_problem_schemes: the rows of df that need attention
problem_schemes(df) ==
  {r \in df :
     \/ r.avg_progress >= 800 /\ r.adjusted_days_remaining > 60
     \/ r.avg_progress >= 600 /\ r.adjusted_days_remaining > 90
     \/ r.adjusted_days_remaining > 120
     \/ r.critical_issues > 0
     \/ r.open_issues >= 3}

ShowProblemSchemes(user_data) ==
  /\ page = NoPage
  /\ LET df == get_scheme_data_with_issues(user_data)
     IN  /\ df # {}
         /\ page' = [NoPage EXCEPT !.kind = "Problem Schemes",
                                   !.user = user_data.username,
                                   !.df = df,
                                   !.problem_schemes = problem_schemes(df)]
  /\ UNCHANGED <<schemes, progress, issues, delay_settings, ops, forms, alert>>

\* st.rerun() / the next interaction: the script runs again from an empty page
Rerun ==
  /\ page # NoPage
  /\ page' = NoPage
  /\ delay_settings' = init_delay_settings(delay_settings)
  /\ UNCHANGED <<schemes, progress, issues, ops, forms, alert>>

\* the requests that write the store
StoreNext ==
  \/ \E u \in Users : ImportSchemes(u)
  \/ \E u \in Users : \E s \in schemes : \E g \in component_groups :
       \E f \in FormUpdates(g) : \E b \in IssueInputs : SaveProgress(u, s, g, f, b)
  \/ \E u \in Users : \E i \in 1..Len(issues) : ResolveIssue(u, i)
  \/ \E u \in Users : \E v \in VerificationInputs : SaveVerification(u, v)
  \/ \E v \in DelayInputs : SaveDelaySettings(v)

Next ==
  \/ StoreNext
  \/ \E u \in Users : ShowDashboard(u)
  \/ Rerun

Spec == Init /\ [][Next]_vars

\* the same store, read through the Analytics page
NextAnalytics ==
  \/ StoreNext
  \/ \E u \in Users : ShowAnalytics(u)
  \/ Rerun

SpecAnalytics == Init /\ [][NextAnalytics]_vars

\* the application started on a database file whose delay_settings table an
\* operator has edited by hand: no row, one row, or all rows but one
FoundTables ==
  { [n \in {} |-> 0],
    [n \in {"critical_issues"} |-> 3],
    [n \in setting_names \ {"payment_issues"} |->
       CASE n = "critical_issues" -> 2
         [] n = "high_issues" -> 1
         [] n = "material_issues" -> 0
         [] n = "contractor_issues" -> 5] }

InitSettings ==
  /\ schemes = {}
  /\ progress = {}
  /\ issues = << >>
  /\ delay_settings \in {init_delay_settings(t) : t \in FoundTables}
  /\ page = NoPage
  /\ ops = 0
  /\ forms = [x \in Sessions |-> NoForm]
  /\ alert = NoAlert

SpecSettings == InitSettings /\ [][Next]_vars

\* two browser sessions on the progress form
NextSessions ==
  \/ \E u \in Users : ImportSchemes(u)
  \/ \E x \in Sessions : \E u \in SessionUsers : \E s \in schemes :
       \E g \in component_groups : \E f \in FormUpdates(g) :
         OpenProgressForm(x, u, s, g, f)
  \/ \E x \in Sessions : \E b \in SessionIssueInputs : SubmitProgressForm(x, b)

SpecSessions == Init /\ [][NextSessions]_vars

\* the verification editor of a session, one row edited, before the save
EditVerification(user_data, typed) ==
  /\ page = NoPage
  /\ LET df == get_scheme_data_with_issues(user_data)
     IN  \E edited \in df :
           page' = [NoPage EXCEPT !.kind = "O&M Verification",
                                  !.user = user_data.username,
                                  !.df = edited_rows(df, edited, typed)]
  /\ UNCHANGED <<schemes, progress, issues, delay_settings, ops, forms, alert>>

\* "Save Verification Dates" pressed on the editor the page shows
SaveVerificationDates ==
  /\ page.kind = "O&M Verification"
  /\ ops < MaxOps
  /\ LET user_data == UserByName(page.user)
         edited_df == page.df
         ids == {e.scheme_id : e \in edited_df}
     IN  \E last \in [ids -> edited_df] :
           /\ \A sid \in ids : last[sid].scheme_id = sid
           /\ schemes' =
                {IF s.district_id = user_data.district_id /\ s.scheme_id \in ids
                   THEN [s EXCEPT
                           !.agency_submitted_date =
                              last[s.scheme_id].agency_submitted_date,
                           !.tpia_verified_date =
                              last[s.scheme_id].tpia_verified_date,
                           !.ee_verified_date =
                              last[s.scheme_id].ee_verified_date]
                   ELSE s : s \in schemes}
  /\ page' = NoPage
  /\ ops' = ops + 1
  /\ UNCHANGED <<progress, issues, delay_settings, forms, alert>>

\* the store and the verification editor
NextVerification ==
  \/ \E u \in Users : ImportSchemes(u)
  \/ \E u \in Users : \E v \in VerificationInputs : EditVerification(u, v)
  \/ SaveVerificationDates
  \/ Rerun

SpecVerification == Init /\ [][NextVerification]_vars

(***************************************************************************)
(* create_whatsapp_summary_message: the summary of a scheme's open issues. *)
(***************************************************************************)
severity_order(severity) ==
  CASE severity = "Critical" -> 0
    [] severity = "High" -> 1
    [] severity = "Medium" -> 2
    [] severity = "Low" -> 3

\* the results sort_values(by='severity', key=severity_order) can give: the
\* rows in ascending key order; the default sort is not stable, so rows of
\* one severity come in any order
sorted_issues(issues_df) ==
  {q \in [1..Len(issues_df) -> {issues_df[k] : k \in 1..Len(issues_df)}] :
     /\ \A k \in 1..Len(issues_df) : \E j \in 1..Len(issues_df) : q[j] = issues_df[k]
     /\ \A j, k \in 1..Len(issues_df) :
          j < k => severity_order(q[j].severity) <= severity_order(q[k].severity)}

\* a variant of the message that lists the first rows as the query gave them
summary_message_unsorted(issues_df, sorted) ==
  [total |-> Len(issues_df),
   listed |-> SubSeq(issues_df, 1, IF Len(issues_df) < 3 THEN Len(issues_df) ELSE 3),
   remainder |-> IF Len(sorted) > 3 THEN <<Len(sorted) - 3>> ELSE NULL]

\* what the message states: the total, the head(3) rows and the remainder line
summary_message(issues_df, sorted) ==
  [total |-> Len(issues_df),
   listed |-> SubSeq(sorted, 1, IF Len(sorted) < 3 THEN Len(sorted) ELSE 3),
   remainder |-> IF Len(sorted) > 3 THEN <<Len(sorted) - 3>> ELSE NULL]

\* "Send Scheme Summary Alert": the message is composed and kept in the session
SendSchemeSummaryAlert ==
  /\ alert.message = NULL
  /\ alert.issues_df # << >>
  /\ \E sorted \in sorted_issues(alert.issues_df) :
       alert' = [alert EXCEPT !.message = <<summary_message(alert.issues_df, sorted)>>]
  /\ UNCHANGED <<schemes, progress, issues, delay_settings, page, ops, forms>>

\* the open issues of a scheme as the page hands them to the message: rows
\* in query order, each with its severity
OpenIssueFrames ==
  UNION {[1..n -> severities] : n \in 0..MaxIssues}

InitSummary ==
  /\ schemes = {}
  /\ progress = {}
  /\ issues = << >>
  /\ delay_settings = default_settings
  /\ page = NoPage
  /\ ops = 0
  /\ forms = [x \in Sessions |-> NoForm]
  /\ \E f \in OpenIssueFrames :
       alert = [issues_df |-> [k \in 1..Len(f) |-> [row |-> k, severity |-> f[k]]],
                message |-> NULL]

NextSummary == SendSchemeSummaryAlert

SpecSummary == InitSummary /\ [][NextSummary]_vars

\* metric rows with a positive target: complete, over-achieved
\* (achieved > target) and incomplete
PositiveTargetInputs ==
  { [target |-> 3, achieved |-> 3, days |-> 30],
    [target |-> 1, achieved |-> 3, days |-> 30],
    [target |-> 3, achieved |-> 1, days |-> 5] }

\* the forms of a group filled in with such rows
PositiveTargetUpdates(group_name) ==
  LET ids == {c.component_id : c \in group_comps(group_name)}
  IN  {f \in [ids -> PositiveTargetInputs \cup TaskInputs] :
         \A cid \in ids :
           IF ComponentById(cid).entry_type = "metric"
             THEN f[cid] \in PositiveTargetInputs
             ELSE f[cid] \in TaskInputs}

\* the store written with positive targets only, read through the dashboard
NextPositiveTargets ==
  \/ \E u \in Users : ImportSchemes(u)
  \/ \E u \in Users : \E s \in schemes : \E g \in component_groups :
       \E f \in PositiveTargetUpdates(g) : \E b \in SessionIssueInputs :
         SaveProgress(u, s, g, f, b)
  \/ \E u \in Users : ShowDashboard(u)
  \/ Rerun

SpecPositiveTargets == Init /\ [][NextPositiveTargets]_vars

(***************************************************************************)
(* show_import_data with any uploaded file: the rows are converted and     *)
(* inserted one by one inside one sqlite3 connection block.                *)
(***************************************************************************)
\* the files a district uploads: 1 is the file of ImportFile; in 2 the
\* 'Sr. No.' cell of the last row holds text, so int(row['sr_no']) raises
UploadChoices == {1, 2}

UploadFile(district_id, k) ==
  LET file == ImportFile(district_id)
  IN  [i \in 1..Len(file) |->
         [row |-> file[i], sr_no_is_number |-> ~(k = 2 /\ i = Len(file))]]

\* the INSERT loop: the table when the loop ends, and whether it ended by
\* an exception
RECURSIVE insert_rows(_, _, _)
insert_rows(tbl, district_id, rows) ==
  IF rows = << >> THEN [raised |-> FALSE, tbl |-> tbl]
  ELSE IF ~Head(rows).sr_no_is_number THEN [raised |-> TRUE, tbl |-> tbl]
  ELSE insert_rows(InsertSchemes(tbl, district_id, <<Head(rows).row>>),
                   district_id, Tail(rows))

\* a variant of the import whose statements are committed one by one, so
\* that an exception leaves the wipe and the rows inserted so far
ImportUpload_without_rollback(user_data, k) ==
  /\ page = NoPage
  /\ "Import Data" \in base_pages(user_data.role)
  /\ user_data.role # "Engineer"
  /\ LET district_id == user_data.district_id
         done == insert_rows({s \in schemes : s.district_id # district_id},
                             district_id, UploadFile(district_id, k))
     IN  /\ schemes' = done.tbl
         /\ progress' = {p \in progress : p.district_id # district_id}
         /\ page' = IF done.raised
                      THEN [NoPage EXCEPT !.kind = "Import failed",
                                          !.user = user_data.username]
                      ELSE NoPage
  /\ UNCHANGED <<issues, delay_settings, ops, forms, alert>>

\* "Import Schemes": the connection block commits when the loop ends, and
\* rolls the wipe and the inserts back when the loop raises; the except
\* clause then reports "Import failed"
ImportUpload(user_data, k) ==
  /\ page = NoPage
  /\ "Import Data" \in base_pages(user_data.role)
  /\ user_data.role # "Engineer"
  /\ LET district_id == user_data.district_id
         done == insert_rows({s \in schemes : s.district_id # district_id},
                             district_id, UploadFile(district_id, k))
     IN  IF done.raised
           THEN /\ UNCHANGED <<schemes, progress>>
                /\ page' = [NoPage EXCEPT !.kind = "Import failed",
                                          !.user = user_data.username]
           ELSE /\ schemes' = done.tbl
                /\ progress' = {p \in progress : p.district_id # district_id}
                /\ page' = NoPage
  /\ UNCHANGED <<issues, delay_settings, ops, forms, alert>>

\* the store under imports of any file
NextUploads ==
  \/ \E u \in Users : \E k \in UploadChoices : ImportUpload(u, k)
  \/ \E u \in Users : \E s \in schemes : \E g \in component_groups :
       \E f \in FormUpdates(g) : \E b \in SessionIssueInputs :
         SaveProgress(u, s, g, f, b)
  \/ \E u \in Users : \E v \in VerificationInputs : SaveVerification(u, v)
  \/ Rerun

SpecUploads == Init /\ [][NextUploads]_vars

\* the same store, read through any of the three views
NextViews ==
  \/ StoreNext
  \/ \E u \in Users : ShowDashboard(u)
  \/ \E u \in Users : ShowAnalytics(u)
  \/ \E u \in Users : ShowProblemSchemes(u)
  \/ Rerun

SpecViews == Init /\ [][NextViews]_vars

\* the same store, read through the Problem Schemes page
NextProblems ==
  \/ StoreNext
  \/ \E u \in Users : ShowProblemSchemes(u)
  \/ Rerun

SpecProblems == Init /\ [][NextProblems]_vars

(***************************************************************************)
(* What the claims speak about: a scheme's own rows in the store.          *)
(***************************************************************************)
\* the progress entries of the scheme a reported row stands for
OwnEntries(r) ==
  {p \in progress : p.scheme_id = r.scheme_id /\ p.district_id = r.district_id}

\* the number of the scheme's own issues counted by a column
OwnCount(r, column) ==
  Cardinality({i \in 1..Len(issues) :
                 /\ issues[i].scheme_id = r.scheme_id
                 /\ issues[i].district_id = r.district_id
                 /\ IssueCase(column, issues[i])})

\* the rows of the page come from a single district
OneDistrictView == Cardinality({r.district_id : r \in page.df}) <= 1

\* fractions a and b denote the same number
FracEq(a, b) == a[1] * b[2] = b[1] * a[2]

\* the calculated percentage of an entry as section 3 of the specification
\* defines it
CalculatedPercent(p) ==
  IF ComponentById(p.component_id).entry_type = "metric"
    THEN IF ~IsNull(p.target_value) /\ Val(p.target_value) > 0
           THEN <<100 * Val(p.achieved_value), Val(p.target_value)>>
           ELSE <<0, 1>>
    ELSE <<Val(p.progress_percent), 1>>

\* the mean of the calculated percentages of E # {}, in tenths
MeanOfCalculated(E) ==
  LET F == {[key |-> p.component_id, district |-> p.district_id,
             frac |-> CalculatedPercent(p)] : p \in E}
      sum == SumFrac(F)
  IN  RoundHalfEven(10 * sum[1], sum[2] * Cardinality(E))

(***************************************************************************)
(* C1.  Status is first-match in a fixed order: 'In O&M' whenever the      *)
(* engineer-verification date of the scheme is set, whatever avg_progress  *)
(* is; otherwise 'Ready for Inspection' when avg_progress >= 100;          *)
(* otherwise 'In Progress' when avg_progress > 0; otherwise 'Not Started'. *)
(***************************************************************************)
C1_StatusFirstMatch ==
  \A r \in page.df :
    \A s \in schemes :
      (s.scheme_id = r.scheme_id /\ s.district_id = r.district_id) =>
        /\ (s.ee_verified_date # NULL) => r.status = "In O&M"
        /\ (s.ee_verified_date = NULL /\ r.avg_progress >= 1000) =>
             r.status = "Ready for Inspection"
        /\ (s.ee_verified_date = NULL /\ r.avg_progress > 0
              /\ r.avg_progress < 1000) => r.status = "In Progress"
        /\ (s.ee_verified_date = NULL /\ r.avg_progress <= 0) =>
             r.status = "Not Started"

\* a verified scheme without any progress is shown as 'In O&M'
C1_Witness ==
  /\ page.kind = "Dashboard"
  /\ \E r \in page.df :
       r.ee_verified_date # NULL /\ r.avg_progress = 0 /\ r.status = "In O&M"

(***************************************************************************)
(* C2.  The risk tier of every scheme is 'High Risk' when the scheme has   *)
(* at least one unresolved Critical issue or at least 3 unresolved issues, *)
(* else 'Medium Risk' when it has at least one unresolved issue, else      *)
(* 'Low Risk'.                                                             *)
(***************************************************************************)
RiskTierOf(critical, open) ==
  IF critical >= 1 \/ open >= 3 THEN "High Risk"
  ELSE IF open >= 1 THEN "Medium Risk"
  ELSE "Low Risk"

C2_RiskTierOfOwnIssues ==
  \A r \in page.df :
    r.risk_level = RiskTierOf(OwnCount(r, "critical_issues"), OwnCount(r, "open_issues"))

\* the same statement for pages whose rows come from one district
C2_InOneDistrict == OneDistrictView => C2_RiskTierOfOwnIssues

(***************************************************************************)
(* C3.  issue_delay_days of a scheme is the sum over the five classes      *)
(* (Critical, High, material, payment, contractor) of the number of the    *)
(* scheme's unresolved issues in the class times the configured penalty of *)
(* the class; an issue in two classes counts in both, one in none adds     *)
(* nothing.                                                                *)
(***************************************************************************)
C3_DelayOfOwnIssues ==
  \A r \in page.df :
    r.issue_delay_days =
        OwnCount(r, "critical_issues") * delay_settings["critical_issues"]
      + OwnCount(r, "high_issues") * delay_settings["high_issues"]
      + OwnCount(r, "material_issues") * delay_settings["material_issues"]
      + OwnCount(r, "payment_issues") * delay_settings["payment_issues"]
      + OwnCount(r, "contractor_issues") * delay_settings["contractor_issues"]

C3_InOneDistrict == OneDistrictView => C3_DelayOfOwnIssues

(***************************************************************************)
(* C4.  adjusted_days_remaining = max_days_remaining + issue_delay_days    *)
(* and adjusted_days_remaining >= max_days_remaining for every scheme in   *)
(* every reachable state; no penalty value is ever negative.               *)
(***************************************************************************)
C4_AdjustedNotBelowMax ==
  /\ \A n \in DOMAIN delay_settings : delay_settings[n] >= 0
  /\ \A r \in page.df :
       /\ r.adjusted_days_remaining = r.max_days_remaining + r.issue_delay_days
       /\ r.adjusted_days_remaining >= r.max_days_remaining

\* after a penalty edit, a scheme with open issues shows a positive delay
C4_Witness ==
  /\ page.kind = "Dashboard"
  /\ delay_settings # default_settings
  /\ \E r \in page.df :
       /\ r.issue_delay_days > 0
       /\ r.adjusted_days_remaining > r.max_days_remaining

(***************************************************************************)
(* C5.  For every metric progress entry the calculated percentage is       *)
(* achieved / target * 100 when target > 0 and 0 otherwise; this is the    *)
(* value the entry form shows and the value the aggregator uses for the    *)
(* entry.                                                                  *)
(***************************************************************************)
C5_AggregatorUsesFormValue ==
  \A r \in page.df :
    \A p \in OwnEntries(r) :
      ComponentById(p.component_id).entry_type = "metric" =>
        /\ FracEq(progress_val(Val(p.target_value), Val(p.achieved_value)),
                  CalculatedPercent(p))
        /\ entry_value(p) # NULL
        /\ FracEq(entry_value(p), CalculatedPercent(p))

(***************************************************************************)
(* C6.  avg_progress of a scheme is the arithmetic mean of the calculated  *)
(* percentages of all of the scheme's progress entries; a metric entry     *)
(* with target 0 contributes 0 to the sum and 1 to the denominator.        *)
(***************************************************************************)
C6_AvgIsMeanOfAllEntries ==
  \A r \in page.df :
    OwnEntries(r) # {} => r.avg_progress = MeanOfCalculated(OwnEntries(r))

(***************************************************************************)
(* C7.  Every scheme that has zero progress entries is reported with       *)
(* avg_progress = 0 and max_days_remaining = 0, whether or not other       *)
(* schemes in scope have entries.                                          *)
(***************************************************************************)
C7_NoEntriesReportsZero ==
  \A r \in page.df :
    OwnEntries(r) = {} => r.avg_progress = 0 /\ r.max_days_remaining = 0

C7_InOneDistrict == OneDistrictView => C7_NoEntriesReportsZero

(***************************************************************************)
(* C8.  max_days_remaining of a scheme is the maximum of days_remaining    *)
(* over the scheme's progress entries, not their sum.                      *)
(***************************************************************************)
C8_MaxDaysOfOwnEntries ==
  \A r \in page.df :
    OwnEntries(r) # {} =>
      /\ \E p \in OwnEntries(r) : Val(p.days_remaining) = r.max_days_remaining
      /\ \A p \in OwnEntries(r) : Val(p.days_remaining) <= r.max_days_remaining

C8_InOneDistrict == OneDistrictView => C8_MaxDaysOfOwnEntries

(***************************************************************************)
(* Calendar facts used to state C9, written without the conversions.       *)
(***************************************************************************)
IsLeapYear(y) == (y % 4 = 0 /\ y % 100 # 0) \/ y % 400 = 0

DaysInMonth(y, m) ==
  IF m = 2 THEN (IF IsLeapYear(y) THEN 29 ELSE 28)
  ELSE IF m \in {4, 6, 9, 11} THEN 30 ELSE 31

IsDate(d) ==
  /\ d[2] \in 1..12
  /\ d[3] >= 1
  /\ d[3] <= DaysInMonth(d[1], d[2])

\* the number of days from 0001-01-01 to d, counted year by year and month
\* by month
RECURSIVE DaysBeforeMonth(_, _)
DaysBeforeMonth(y, m) ==
  IF m = 1 THEN 0 ELSE DaysBeforeMonth(y, m - 1) + DaysInMonth(y, m - 1)

DayNumber(d) ==
  LET y == d[1] - 1
  IN  365 * y + (y \div 4) - (y \div 100) + (y \div 400)
        + DaysBeforeMonth(d[1], d[2]) + d[3]

\* a is not later than b
NotLater(a, b) ==
  \/ a[1] < b[1]
  \/ a[1] = b[1] /\ a[2] < b[2]
  \/ a[1] = b[1] /\ a[2] = b[2] /\ a[3] <= b[3]

(***************************************************************************)
(* C9.  For every forecast row, physical_completion_date = now +           *)
(* adjusted_days_remaining days and forecasted_om_date =                   *)
(* physical_completion_date + buffer days, with one now for all rows of a  *)
(* run (adjusted 51, buffer 20, now 2024-01-01 gives 2024-02-21 and        *)
(* 2024-03-12); forecasted_om_date is never earlier than                   *)
(* physical_completion_date.                                               *)
(***************************************************************************)
C9_ForecastDates ==
  \A f \in page.forecast :
    /\ IsDate(f.physical_completion_date)
    /\ IsDate(f.forecasted_om_date)
    /\ DayNumber(f.physical_completion_date) =
         DayNumber(page.today) + f.adjusted_days_remaining
    /\ DayNumber(f.forecasted_om_date) =
         DayNumber(f.physical_completion_date) + page.buffer_days
    /\ NotLater(f.physical_completion_date, f.forecasted_om_date)
    /\ (page.today = <<2024, 1, 1>> /\ f.adjusted_days_remaining = 51
          /\ page.buffer_days = 20) =>
         /\ f.physical_completion_date = <<2024, 2, 21>>
         /\ f.forecasted_om_date = <<2024, 3, 12>>

\* the scenario of the specification: 30 days left, one High and one Critical
\* issue at the default penalties, a buffer of 20 days, now = 2024-01-01
C9_Witness ==
  /\ page.kind = "Analytics"
  /\ page.today = <<2024, 1, 1>>
  /\ page.buffer_days = 20
  /\ \E f \in page.forecast :
       /\ f.max_days_remaining = 30
       /\ f.adjusted_days_remaining = 51
       /\ f.physical_completion_date = <<2024, 2, 21>>
       /\ f.forecasted_om_date = <<2024, 3, 12>>

(***************************************************************************)
(* C10.  The forecast table has a row for a scheme if and only if the      *)
(* scheme is in the viewer's filtered scope and its status is 'In          *)
(* Progress' or 'Ready for Inspection'; schemes 'In O&M' or 'Not Started'  *)
(* never appear.                                                           *)
(***************************************************************************)
\* the scheme is in the scope of the actor's role and passes the select boxes
InFilteredScope(s) ==
  LET u == UserByName(page.user)
      blocks == {Upper(u.assigned_block[i]) :
                   i \in {j \in 1..Len(u.assigned_block) : u.assigned_block[j] # ""}}
  IN  /\ u.role \in {"Engineer", "Manager / Coordinator"} =>
           /\ s.district_id = u.district_id
           /\ "ALL" \notin blocks => Upper(s.block) \in blocks
      /\ u.role = "Engineer" /\ Upper(u.assigned_agency) # "ALL" =>
           Upper(s.agency) = Upper(u.assigned_agency)
      /\ page.selected_block # "All Blocks" => s.block = page.selected_block
      /\ page.selected_agency # "All Agencies" => s.agency = page.selected_agency

HasForecastRow(s) ==
  \E f \in page.forecast :
    f.scheme_id = s.scheme_id /\ f.district_id = s.district_id

C10_ForecastRowsIffActive ==
  page.kind = "Analytics" =>
    /\ \A s \in schemes :
         HasForecastRow(s) <=>
           /\ InFilteredScope(s)
           /\ \E r \in page.df :
                /\ r.scheme_id = s.scheme_id
                /\ r.district_id = s.district_id
                /\ r.status \in {"In Progress", "Ready for Inspection"}
    /\ \A f \in page.forecast : f.status \notin {"In O&M", "Not Started"}
    /\ \A f \in page.forecast :
         \E s \in schemes :
           f.scheme_id = s.scheme_id /\ f.district_id = s.district_id

\* one page with a forecast row, a verified scheme and a scheme not started,
\* the last two left out of the forecast
C10_Witness ==
  /\ page.kind = "Analytics"
  /\ page.forecast # {}
  /\ \E r \in page.df :
       /\ r.status = "In O&M"
       /\ \A f \in page.forecast :
            ~(f.scheme_id = r.scheme_id /\ f.district_id = r.district_id)
  /\ \E r \in page.df :
       /\ r.status = "Not Started"
       /\ \A f \in page.forecast :
            ~(f.scheme_id = r.scheme_id /\ f.district_id = r.district_id)

(***************************************************************************)
(* C11.  A scheme is flagged as a problem scheme if and only if at least   *)
(* one of these holds: avg_progress >= 80 and adjusted_days_remaining >    *)
(* 60; avg_progress >= 60 and adjusted_days_remaining > 90;                *)
(* adjusted_days_remaining > 120; the scheme has an unresolved Critical    *)
(* issue; the scheme has at least 3 unresolved issues.  Each clause alone  *)
(* is sufficient.                                                          *)
(***************************************************************************)
C11_ProblemFlag ==
  page.kind = "Problem Schemes" =>
    \A r \in page.df :
      r \in page.problem_schemes <=>
        \/ r.avg_progress >= 800 /\ r.adjusted_days_remaining > 60
        \/ r.avg_progress >= 600 /\ r.adjusted_days_remaining > 90
        \/ r.adjusted_days_remaining > 120
        \/ OwnCount(r, "critical_issues") > 0
        \/ OwnCount(r, "open_issues") >= 3

\* the same statement for pages whose rows come from one district
C11_InOneDistrict == OneDistrictView => C11_ProblemFlag

(***************************************************************************)
(* C12.  In every reachable state the open, Critical, High, material,      *)
(* payment and contractor issue counts of a scheme count exactly that      *)
(* scheme's issues whose resolved flag is unset; a resolved issue          *)
(* contributes to none of them.                                            *)
(***************************************************************************)
\* the scheme's own issues whose resolved flag is unset
OwnUnresolved(r) ==
  {i \in 1..Len(issues) :
     /\ issues[i].scheme_id = r.scheme_id
     /\ issues[i].district_id = r.district_id
     /\ issues[i].is_resolved # 1}

C12_CountsOfOwnUnresolved ==
  \A r \in page.df :
    LET U == OwnUnresolved(r)
    IN  /\ r.open_issues = Cardinality(U)
        /\ r.critical_issues =
             Cardinality({i \in U : issues[i].severity = "Critical"})
        /\ r.high_issues = Cardinality({i \in U : issues[i].severity = "High"})
        /\ r.material_issues =
             Cardinality({i \in U : issues[i].issue_category = "Material not delivered"})
        /\ r.payment_issues =
             Cardinality({i \in U : issues[i].issue_category = "Payment issues"})
        /\ r.contractor_issues =
             Cardinality({i \in U : issues[i].issue_category = "Contractor not working"})

\* the same statement for pages whose rows come from one district
C12_InOneDistrict == OneDistrictView => C12_CountsOfOwnUnresolved

C14_IssueLogAppendOnly ==
  [][/\ Len(issues') >= Len(issues)
     /\ \A i \in 1..Len(issues) :
          issues'[i] = [issues[i] EXCEPT !.is_resolved = issues'[i].is_resolved]]_vars

\* issues of a district that has been imported again after they were reported
C14_Witness ==
  /\ Len(issues) >= 2
  /\ \A i \in 1..Len(issues) :
       /\ issues[i].is_resolved = 0
       /\ \A p \in progress :
            ~(p.scheme_id = issues[i].scheme_id /\ p.district_id = issues[i].district_id)
  /\ schemes # {}

(***************************************************************************)
(* C15.  Progress round-trip: after any sequence of saves the store holds  *)
(* exactly one progress entry per (district, scheme, component) that was   *)
(* saved, and the entry holds exactly the target/achieved (metric) or      *)
(* percent (task) and days_remaining values of the most recent save for    *)
(* the triple, with nothing merged from earlier saves.                     *)
(***************************************************************************)
SameTriple(p, q) ==
  /\ p.district_id = q.district_id
  /\ p.scheme_id = q.scheme_id
  /\ p.component_id = q.component_id

\* the entry p holds the values u typed for component cid, and nothing else
HoldsExactly(p, cid, u) ==
  /\ p.days_remaining = <<u.days>>
  /\ IF ComponentById(cid).entry_type = "metric"
       THEN /\ p.target_value = <<u.target>>
            /\ p.achieved_value = <<u.achieved>>
            /\ p.progress_percent = NULL
       ELSE /\ p.progress_percent = <<u.percent>>
            /\ p.target_value = NULL
            /\ p.achieved_value = NULL

\* the step from progress to progress' is one save of the form f for the
\* scheme sid of district d
IsSaveOf(d, sid, f) ==
  LET written(p) == p.district_id = d /\ p.scheme_id = sid
                      /\ p.component_id \in DOMAIN f
  IN  /\ \A cid \in DOMAIN f :
           \E p \in progress' :
             /\ p.district_id = d /\ p.scheme_id = sid /\ p.component_id = cid
             /\ HoldsExactly(p, cid, f[cid])
      /\ {p \in progress' : ~written(p)} = {p \in progress : ~written(p)}

C15_ProgressRoundTrip ==
  [][/\ \A p, q \in progress' : SameTriple(p, q) => p = q
     /\ (progress' # progress /\ ops' # ops) =>
          \E d \in Districts : \E s \in schemes : \E g \in component_groups :
            \E f \in FormUpdates(g) : IsSaveOf(d, s.scheme_id, f)]_vars

\* two saves for one scheme (each reported two issues) have left one entry
\* per component
C15_Witness ==
  /\ Len(issues) = 4
  /\ \A i \in 1..4 :
       issues[i].scheme_id = issues[1].scheme_id
       /\ issues[i].district_id = issues[1].district_id
  /\ Cardinality({p \in progress : p.scheme_id = issues[1].scheme_id
                                     /\ p.district_id = issues[1].district_id}) = 2

(***************************************************************************)
(* C16.  When the penalty table lacks a value for a class (empty table or  *)
(* missing row), every forecast computation uses the hard-coded default of *)
(* the class (critical 14, high 7, material 10, payment 21, contractor 14) *)
(* and does not fail; values present in the table override the defaults.   *)
(***************************************************************************)
\* the penalty of class n: the row of the table, else the number d
PenaltyOr(n, d) == IF n \in DOMAIN delay_settings THEN delay_settings[n] ELSE d

C16_MissingPenaltyUsesDefault ==
  \A r \in page.df :
    /\ r.issue_delay_days =
           r.critical_issues * PenaltyOr("critical_issues", 14)
         + r.high_issues * PenaltyOr("high_issues", 7)
         + r.material_issues * PenaltyOr("material_issues", 10)
         + r.payment_issues * PenaltyOr("payment_issues", 21)
         + r.contractor_issues * PenaltyOr("contractor_issues", 14)
    /\ r.adjusted_days_remaining = r.max_days_remaining + r.issue_delay_days

\* a table with a row for 'critical_issues' (3 days) and none for
\* 'high_issues': one High and one Critical issue cost 7 + 3 days
C16_Witness ==
  /\ page.kind = "Dashboard"
  /\ DOMAIN delay_settings = {"critical_issues"}
  /\ delay_settings["critical_issues"] = 3
  /\ \E r \in page.df :
       /\ r.critical_issues = 1
       /\ r.high_issues = 1
       /\ r.issue_delay_days = 10

(***************************************************************************)
(* C17.  A saved change of the penalty values takes effect immediately:    *)
(* every forecast computation that starts after 'Save Delay Settings'      *)
(* commits uses the saved values for all five classes, and the values stay *)
(* as saved until the next save (the per-request database initialisation   *)
(* never resets them to the defaults).                                     *)
(***************************************************************************)
\* the values of a form that the page accepts
IsSavedForm(t) ==
  \E v \in DelayInputs :
    /\ \A n \in setting_names : v[n] >= 0
    /\ t = v

C17_SavedPenaltiesStay ==
  [][/\ delay_settings' # delay_settings =>
          /\ IsSavedForm(delay_settings')
          /\ ops' = ops + 1
          /\ UNCHANGED <<schemes, progress, issues>>
     /\ \A r \in page'.df :
          r.issue_delay_days =
              r.critical_issues * delay_settings'["critical_issues"]
            + r.high_issues * delay_settings'["high_issues"]
            + r.material_issues * delay_settings'["material_issues"]
            + r.payment_issues * delay_settings'["payment_issues"]
            + r.contractor_issues * delay_settings'["contractor_issues"]]_vars

\* after a save of (critical 1, high 2, ...) a page shows one High and one
\* Critical issue at 2 + 1 days
C17_Witness ==
  /\ page.kind = "Dashboard"
  /\ IsSavedForm(delay_settings)
  /\ \E r \in page.df :
       /\ r.critical_issues = 1
       /\ r.high_issues = 1
       /\ r.issue_delay_days = 3

(***************************************************************************)
(* C18.  Scheme rows are created only by import and are removed only by an *)
(* import into their own district; a verification-date edit is the only    *)
(* other operation that changes a scheme row.  An import into district D   *)
(* leaves the scheme rows and progress entries of every other district     *)
(* unchanged.                                                              *)
(***************************************************************************)
SchemeKeys(tbl) == {<<s.scheme_id, s.district_id>> : s \in tbl}

\* the step leaves the schemes and the progress of all districts but D alone
OtherDistrictsKept(D) ==
  /\ {s \in schemes' : s.district_id # D} = {s \in schemes : s.district_id # D}
  /\ {p \in progress' : p.district_id # D} = {p \in progress : p.district_id # D}

\* the step changes nothing of the scheme rows but verification dates
OnlyDatesEdited ==
  /\ SchemeKeys(schemes') = SchemeKeys(schemes)
  /\ \A s \in schemes :
       \E t \in schemes' :
         t = [s EXCEPT !.agency_submitted_date = t.agency_submitted_date,
                       !.tpia_verified_date = t.tpia_verified_date,
                       !.ee_verified_date = t.ee_verified_date]

C18_SchemesFrame ==
  [][/\ SchemeKeys(schemes') # SchemeKeys(schemes) =>
          /\ ops' = ops
          /\ \E D \in Districts : OtherDistrictsKept(D)
     /\ (ops' = ops /\ <<schemes, progress>>' # <<schemes, progress>>) =>
          \E D \in Districts : OtherDistrictsKept(D)
     /\ (ops' # ops /\ schemes' # schemes) =>
          /\ OnlyDatesEdited
          /\ UNCHANGED <<progress, issues, delay_settings>>]_vars

\* both districts hold schemes and one of them progress: the import of the
\* other district has not touched it
C18_Witness ==
  /\ \A D \in Districts : \E s \in schemes : s.district_id = D
  /\ \E p \in progress : \A q \in progress : q.district_id = p.district_id
  /\ \E s \in schemes : s.ee_verified_date # NULL

(***************************************************************************)
(* C19.  The three verification milestones of a scheme are sequential: in  *)
(* every reachable state a scheme whose engineer-verification date is set  *)
(* also has its third-party-verified date set, and a scheme whose          *)
(* third-party-verified date is set also has its agency-submitted date     *)
(* set.                                                                    *)
(***************************************************************************)
C19_MilestonesSequential ==
  \A s \in schemes :
    /\ s.ee_verified_date # NULL => s.tpia_verified_date # NULL
    /\ s.tpia_verified_date # NULL => s.agency_submitted_date # NULL

(***************************************************************************)
(* C20.  Last-write-wins without blocking: when two sessions have both     *)
(* loaded the same progress entry and each saves a different value, in     *)
(* either commit order both saves succeed without error or conflict check, *)
(* and the stored entry afterwards equals the values of the save that      *)
(* committed last.                                                         *)
(***************************************************************************)
\* the stored entries of the scheme a session's form is about
StoredFor(x) ==
  progress_df(UserByName(forms[x].user).district_id, forms[x].scheme_id)

\* a session can always submit the form it shows, whatever was committed
\* since the form was rendered
C20_NeverBlocked ==
  \A x \in Sessions :
    (forms[x] # NoForm /\ ops < MaxSubmits) =>
      \A b \in SessionIssueInputs : ENABLED SubmitProgressForm(x, b)

\* a submit leaves, for each component of the form, one entry that holds
\* exactly the values the session typed
C20_SubmitWins ==
  \A x \in Sessions :
    (forms[x] # NoForm /\ forms'[x] = NoForm) =>
      LET d == UserByName(forms[x].user).district_id
          sid == forms[x].scheme_id
      IN  \A cid \in DOMAIN forms[x].updates :
            \E p \in progress' :
              /\ p.district_id = d /\ p.scheme_id = sid /\ p.component_id = cid
              /\ HoldsExactly(p, cid, forms[x].updates[cid])
              /\ \A q \in progress' : SameTriple(p, q) => q = p

C20_LastWriteWins == []C20_NeverBlocked /\ [][C20_SubmitWins]_vars

\* one session still shows the form of an existing entry it loaded, with
\* other values typed, after the other session committed different values
\* for the same entry
C20_Witness ==
  \E x, y \in Sessions :
    /\ x # y
    /\ forms[x] # NoForm /\ forms[y] = NoForm
    /\ ops = 2
    /\ forms[x].progress_df # {}
    /\ StoredFor(x) # forms[x].progress_df
    /\ \A p \in StoredFor(x) : \A cid \in DOMAIN forms[x].updates :
         p.component_id = cid => ~HoldsExactly(p, cid, forms[x].updates[cid])

(***************************************************************************)
(* C21.  The status/forecast computation is a pure read: running           *)
(* get_scheme_data_with_issues (and the dashboard, analytics and           *)
(* problem-scheme views built on it) for any actor leaves schemes,         *)
(* progress entries, issues and penalty settings unchanged, and two runs   *)
(* on the same store state for the same actor return the same              *)
(* avg_progress, counts, risk tier and status for every scheme.            *)
(***************************************************************************)
\* rows r and q report the same scheme with the same derived values
SameReport(r, q) ==
  /\ r.scheme_id = q.scheme_id /\ r.district_id = q.district_id
  /\ r.avg_progress = q.avg_progress
  /\ r.max_days_remaining = q.max_days_remaining
  /\ r.total_issues = q.total_issues /\ r.open_issues = q.open_issues
  /\ r.critical_issues = q.critical_issues /\ r.high_issues = q.high_issues
  /\ r.material_issues = q.material_issues
  /\ r.payment_issues = q.payment_issues
  /\ r.contractor_issues = q.contractor_issues
  /\ r.risk_level = q.risk_level
  /\ r.status = q.status

\* a view step writes nothing to the store
C21_ViewWritesNothing ==
  page' # NoPage => UNCHANGED <<schemes, progress, issues, delay_settings>>

\* running the computation again for the actor of the page, on the store as
\* it is, reports what the page shows
C21_SecondRunAgrees ==
  page # NoPage =>
    LET again == get_scheme_data_with_issues(UserByName(page.user))
    IN  /\ \A r \in page.df : \E q \in again : SameReport(r, q)
        /\ page.kind # "Analytics" =>
             \A q \in again : \E r \in page.df : SameReport(r, q)

AssignedBlocks(u) ==
  {Upper(u.assigned_block[i]) :
     i \in {j \in 1..Len(u.assigned_block) : u.assigned_block[j] # ""}}

\* the scheme s lies in the scope the account u is assigned
InAssignedScope(u, s) ==
  /\ s.district_id = u.district_id
  /\ \/ u.assigned_block = <<"all">>
     \/ Upper(s.block) \in AssignedBlocks(u)
  /\ u.role = "Engineer" =>
       \/ Upper(u.assigned_agency) = "ALL"
       \/ Upper(s.agency) = Upper(u.assigned_agency)

ScopedUsers == {u \in Users : u.role \in {"Engineer", "Manager / Coordinator"}}

C22_ScopeByRole ==
  /\ \A u \in ScopedUsers :
       /\ \A r \in get_scheme_data_with_issues(u) : InAssignedScope(u, r)
       /\ \A s \in ProgressEntrySchemes(u) : InAssignedScope(u, s)
       /\ \A i \in DashboardIssues(u) :
            \A s \in schemes :
              (s.scheme_id = issues[i].scheme_id
                 /\ s.district_id = issues[i].district_id) => InAssignedScope(u, s)
  /\ (page # NoPage /\ UserByName(page.user) \in ScopedUsers) =>
       \A r \in page.df : InAssignedScope(UserByName(page.user), r)

\* the Engineer's dashboard shows a scheme while the store holds a scheme of
\* another block and agency of the district, with an issue, and a scheme of
\* another district
C22_Witness ==
  /\ page.kind = "Dashboard" /\ page.user = "eng1" /\ page.df # {}
  /\ \E s \in schemes : s.district_id = "D2"
  /\ \E s \in schemes :
       /\ s.district_id = "D1"
       /\ ~InAssignedScope(UserByName("eng1"), s)
       /\ \E i \in 1..Len(issues) : issues[i].scheme_id = s.scheme_id
                                      /\ issues[i].district_id = "D1"

(***************************************************************************)
(* C23.  Import Data is restricted to Managers and above: in no sequence   *)
(* of actions does a session whose role is Engineer execute the scheme     *)
(* import (the district wipe of schemes and progress followed by inserts); *)
(* the page is absent from an Engineer's navigation and refuses to run for *)
(* that role.                                                              *)
(***************************************************************************)
C23_EngineerNeverImports ==
  \A u \in Users :
    u.role = "Engineer" =>
      /\ "Import Data" \notin base_pages(u.role)
      /\ ~ENABLED ImportSchemes(u)

\* between two requests: the Engineer has saved progress on a scheme the
\* Manager imported, and the Manager of the same district can import again
C23_Witness ==
  /\ page = NoPage
  /\ \E i \in 1..Len(issues) : issues[i].reported_by = "eng1"
  /\ ENABLED ImportSchemes(UserByName("mgr1"))
  /\ ~ENABLED ImportSchemes(UserByName("eng1"))

(***************************************************************************)
(* C24.  The notification summary for a scheme with n open issues states   *)
(* the total n, lists min(n, 3) issues which are the ones of highest       *)
(* severity in the order Critical, High, Medium, Low (no listed issue is   *)
(* less severe than an unlisted one), and contains a remainder line,       *)
(* stating n - 3, if and only if n > 3.                                    *)
(***************************************************************************)
\* severity a is at least as severe as severity b
AtLeastAsSevere(a, b) ==
  \/ a = "Critical"
  \/ a = "High" /\ b # "Critical"
  \/ a = "Medium" /\ b \in {"Medium", "Low"}
  \/ a = "Low" /\ b = "Low"

C24_SummaryMessage ==
  alert.message # NULL =>
    LET m == alert.message[1]
        n == Len(alert.issues_df)
        rows == {alert.issues_df[k] : k \in 1..n}
        shown == {m.listed[k] : k \in 1..Len(m.listed)}
    IN  /\ m.total = n
        /\ Len(m.listed) = (IF n < 3 THEN n ELSE 3)
        /\ shown \subseteq rows /\ Cardinality(shown) = Len(m.listed)
        /\ \A j, k \in 1..Len(m.listed) :
             j < k => AtLeastAsSevere(m.listed[j].severity, m.listed[k].severity)
        /\ \A r \in shown : \A o \in rows \ shown :
             AtLeastAsSevere(r.severity, o.severity)
        /\ (m.remainder # NULL) <=> (n > 3)
        /\ m.remainder # NULL => m.remainder[1] = n - 3

\* a message for four open issues whose most severe one came last in the
\* query: it is listed first, a Low one is left to the remainder line
C24_Witness ==
  /\ alert.message # NULL
  /\ Len(alert.issues_df) = 4
  /\ alert.issues_df[4].severity = "Critical"
  /\ alert.issues_df[1].severity = "Low"
  /\ alert.message[1].listed[1] = alert.issues_df[4]
  /\ alert.message[1].remainder = <<1>>

(***************************************************************************)
(* C25.  District isolation of derived metrics: for every actor, including *)
(* a Corporate actor who sees all districts, the avg_progress,             *)
(* max_days_remaining and issue counts reported for a scheme are computed  *)
(* only from progress entries and issues that carry the same scheme_id and *)
(* the same district_id as that scheme; entries or issues of another       *)
(* district with an equal scheme_id never change them, and each scheme row *)
(* appears exactly once.                                                   *)
(***************************************************************************)
\* the row of the scheme computed from the rows of its own district alone
IsolatedRow(r) ==
  LET s == CHOOSE t \in schemes :
             t.scheme_id = r.scheme_id /\ t.district_id = r.district_id
  IN  scheme_row({r.district_id}, s, get_delay_settings)

C25_DistrictIsolation ==
  page.kind = "Dashboard" =>
    /\ \A r \in page.df :
         LET own == IsolatedRow(r)
         IN  /\ r.avg_progress = own.avg_progress
             /\ r.max_days_remaining = own.max_days_remaining
             /\ r.total_issues = own.total_issues
             /\ r.open_issues = own.open_issues
             /\ r.critical_issues = own.critical_issues
             /\ r.high_issues = own.high_issues
             /\ r.material_issues = own.material_issues
             /\ r.payment_issues = own.payment_issues
             /\ r.contractor_issues = own.contractor_issues
    /\ \A r, q \in page.df :
         (r.scheme_id = q.scheme_id /\ r.district_id = q.district_id) => r = q

\* the same statement for pages whose rows come from one district
C25_InOneDistrict == OneDistrictView => C25_DistrictIsolation

(***************************************************************************)
(* C26.  Saving verification dates writes each edited row back to the same *)
(* scheme row it was read from: after the save, for every actor role, each *)
(* (scheme_id, district_id) row that was shown in the editor holds the     *)
(* three dates shown for it, and every scheme row that was not shown is    *)
(* unchanged; in particular a Corporate actor's edit of a scheme of        *)
(* another district is never written to a scheme of the actor's own        *)
(* district.                                                               *)
(***************************************************************************)
\* the row e of the editor is the scheme row s
ShownAs(e, s) == e.scheme_id = s.scheme_id /\ e.district_id = s.district_id

C26_SaveWritesShownRows ==
  (page.kind = "O&M Verification" /\ page' = NoPage /\ ops' # ops) =>
    /\ \A e \in page.df :
         \E s \in schemes' :
           /\ ShownAs(e, s)
           /\ s.agency_submitted_date = e.agency_submitted_date
           /\ s.tpia_verified_date = e.tpia_verified_date
           /\ s.ee_verified_date = e.ee_verified_date
    /\ \A s \in schemes :
         (\A e \in page.df : ~ShownAs(e, s)) => s \in schemes'

C26_VerificationWriteBack == [][C26_SaveWritesShownRows]_vars

\* the same statement for editors that are not a Corporate actor's
C26_InOneDistrict ==
  [][(page.kind = "O&M Verification"
       /\ UserByName(page.user).role = "Corporate") \/ C26_SaveWritesShownRows]_vars

(***************************************************************************)
(* C27.  No lost update across components: if two sessions load the same   *)
(* component-group form of the same scheme, session A changes only         *)
(* component X and session B changes only component Y (X different from Y, *)
(* same group), then after both have saved, in either order, the store     *)
(* holds A's value for X and B's value for Y.                              *)
(***************************************************************************)
\* session x left the widgets of component cid as the form showed them
Untouched(x, cid) ==
  forms[x].updates[cid] = widget_default(forms[x].progress_df, cid)

\* since session x rendered its form, another session has saved a change of
\* component cid
ChangedByOther(x, cid) ==
  widget_default(StoredFor(x), cid) # widget_default(forms[x].progress_df, cid)

\* the second of the two saves: session x, which changed only Y, saves after
\* the other session changed only X; X keeps the other session's value and Y
\* gets the value of x
C27_SecondSaveKeepsOther ==
  \A x \in Sessions :
    (forms[x] # NoForm /\ forms'[x] = NoForm) =>
      \A X, Y \in DOMAIN forms[x].updates :
        (/\ X # Y
         /\ Untouched(x, X) /\ ChangedByOther(x, X)
         /\ ~Untouched(x, Y) /\ ~ChangedByOther(x, Y)) =>
          LET after ==
                {p \in progress' :
                   /\ p.scheme_id = forms[x].scheme_id
                   /\ p.district_id = UserByName(forms[x].user).district_id}
          IN  /\ widget_default(after, X) = widget_default(StoredFor(x), X)
              /\ widget_default(after, Y) = forms[x].updates[Y]

C27_NoLostUpdate == [][C27_SecondSaveKeepsOther]_vars

(***************************************************************************)
(* C28.  If a scheme's status is 'Ready for Inspection', then every one of *)
(* its progress entries has a calculated percentage of at least 100 and    *)
(* every catalog component of its site variant(s) has an entry; an         *)
(* over-achieved metric component (achieved > target) or a component       *)
(* without an entry cannot make an incomplete scheme count as ready.       *)
(***************************************************************************)
C28_ReadyMeansComplete ==
  \A r \in page.df :
    r.status = "Ready for Inspection" =>
      /\ \A p \in OwnEntries(r) :
           CalculatedPercent(p)[1] >= 100 * CalculatedPercent(p)[2]
      /\ \A c \in components :
           \E p \in OwnEntries(r) : p.component_id = c.component_id

\* the same statement for pages whose rows come from one district
C28_InOneDistrict == OneDistrictView => C28_ReadyMeansComplete

(***************************************************************************)
(* C29.  Import is all-or-nothing: if an import into district D fails      *)
(* part-way (an exception while a row is being inserted after the wipe),   *)
(* the schemes and progress entries of D are exactly as they were before   *)
(* the import started, and an error is reported instead of success.        *)
(***************************************************************************)
\* the district holds exactly the rows of its whole file, without dates
HoldsWholeFile(tbl, D) ==
  {s \in tbl : s.district_id = D} = InsertSchemes({}, D, ImportFile(D))

C29_FailedImportChangesNothing ==
  /\ page'.kind = "Import failed" =>
       UNCHANGED <<schemes, progress, issues, delay_settings>>
  /\ (page'.kind # "Import failed" /\ ops' = ops
        /\ <<schemes, progress>>' # <<schemes, progress>>) =>
       \E D \in Districts :
         /\ HoldsWholeFile(schemes', D)
         /\ \A p \in progress' : p.district_id # D

C29_ImportAllOrNothing == [][C29_FailedImportChangesNothing]_vars

\* an import of the district has just failed: its schemes still hold a
\* verification date and its progress entries are still there
C29_Witness ==
  /\ page.kind = "Import failed"
  /\ \E s \in schemes :
       /\ s.district_id = UserByName(page.user).district_id
       /\ s.agency_submitted_date # NULL
  /\ \E p \in progress : p.district_id = UserByName(page.user).district_id

(***************************************************************************)
(* C30.  Immediately after a successful import into district D, every      *)
(* scheme of D has no progress entries and no verification dates, so a     *)
(* viewer scoped to D sees avg_progress = 0, max_days_remaining = 0 and    *)
(* status 'Not Started' for each of them, regardless of the progress and   *)
(* verification dates stored for the same scheme_id before the import.     *)
(***************************************************************************)
\* the state after the step, for district D
FreshDistrict(D) ==
  /\ \E s \in schemes' : s.district_id = D
  /\ \A s \in schemes' :
       s.district_id = D =>
         /\ s.agency_submitted_date = NULL
         /\ s.tpia_verified_date = NULL
         /\ s.ee_verified_date = NULL
  /\ \A p \in progress' : p.district_id # D
  /\ \A u \in ScopedUsers :
       u.district_id = D =>
         \A r \in get_scheme_data_with_issues(u)' :
           /\ r.avg_progress = 0
           /\ r.max_days_remaining = 0
           /\ r.status = "Not Started"

\* in the specification the steps between two empty pages that write no
\* counted request are the imports
C30_FreshAfterImport ==
  [][(page = NoPage /\ page' = NoPage /\ ops' = ops) =>
       \E D \in Districts : OtherDistrictsKept(D) /\ FreshDistrict(D)]_vars

\* district D1 after an import that wiped saved progress: its issues are
\* still stored, its progress entries and verification dates are gone
C30_Witness ==
  /\ page = NoPage /\ ops = 2
  /\ \E i \in 1..Len(issues) : issues[i].district_id = "D1"
  /\ \E s \in schemes : s.district_id = "D1"
  /\ \A s \in schemes :
       s.district_id = "D1" =>
         s.agency_submitted_date = NULL /\ s.ee_verified_date = NULL
  /\ \A p \in progress : p.district_id # "D1"


====
